---- MODULE Spec2Model ----
(***************************************************************************)
(* A model of small_ranch_grid.py: the KML loader get_geo_dataframe and    *)
(* the grid tiler generate_grid.                                           *)
(*                                                                         *)
(* Coordinates of the reference collection's metric bounding box are       *)
(* fixed-point numbers n / Scale, so that np.floor is not the identity.    *)
(* Everything after the floor (origins, cell vertices) is an integer, as   *)
(* in the code.  A point is a pair <<x, y>>.                               *)
(***************************************************************************)
EXTENDS Integers, Sequences, FiniteSets, TLC

VARIABLES
    reference,    \* generate_grid's argument gdf: [size, box]
    pc,           \* position in generate_grid
    total_bounds, \* <<xmin, ymin, xmax, ymax>> of meters_gdf, numerators over Scale
    int_bounds,   \* <<int_xmin, int_ymin, int_xmax, int_ymax>>
    cols, rows,   \* the two origin lists
    ci, ri,       \* positions of the two for loops in cols and rows
    polygons,     \* the list the loops append to
    grid_gdf,     \* the returned frame, or NoFrame
    error,        \* the exception that left generate_grid, or "none"
    calls,        \* how many times generate_grid was called on reference
    first_grid,   \* the polygons of the first call
    layers,       \* the source's layers, in fiona.listlayers order
    li,           \* position of the loader's for loop in layers
    gdf,          \* the loader's accumulating frame
    lpc,          \* position in get_geo_dataframe
    lerror        \* the exception that left get_geo_dataframe, or "none"

vars == <<reference, pc, total_bounds, int_bounds, cols, rows, ci, ri, polygons,
          grid_gdf, error, calls, first_grid, layers, li, gdf, lpc, lerror>>

gridVars == <<reference, pc, total_bounds, int_bounds, cols, rows, ci, ri,
              polygons, grid_gdf, error, calls, first_grid>>

loaderVars == <<layers, li, gdf, lpc, lerror>>

---------------------------------------------------------------------------
(* Bounds of the model *)

\* bounding-box coordinates are multiples of 1/Scale
Scale == 2
\* a bounding box spans up to MaxSpan whole cells (plus a fraction) per axis
MaxSpan == 2
\* generate_grid is called up to MaxCalls times on the same reference
MaxCalls == 2
\* a source has up to MaxLayers layers of up to MaxGeoms geometries each
MaxLayers == 2
MaxGeoms == 2
\* the geometries a layer can hold are 1..NumGeoms
NumGeoms == 2

---------------------------------------------------------------------------
(* generate_grid *)

meters_on_side_of_acre == 64

\* int(np.floor(n / Scale))
Floor(n) == n \div Scale

\* range with the stop value included
RECURSIVE PyRangeInclusive(_, _, _)
PyRangeInclusive(start, stop, step) ==
    IF (step > 0 /\ start <= stop) \/ (step < 0 /\ start >= stop)
    THEN <<start>> \o PyRangeInclusive(start + step, stop, step)
    ELSE <<>>

\* range stepping one further than asked
RECURSIVE PyRangeWideStep(_, _, _)
PyRangeWideStep(start, stop, step) ==
    IF (step > 0 /\ start < stop) \/ (step < 0 /\ start > stop)
    THEN <<start>> \o PyRangeWideStep(start + step + 1, stop, step)
    ELSE <<>>

\* range that leaves out its first value
RECURSIVE PyRangeFromSecond(_, _, _)
PyRangeFromSecond(start, stop, step) ==
    IF (step > 0 /\ start + step < stop) \/ (step < 0 /\ start + step > stop)
    THEN <<start + step>> \o PyRangeFromSecond(start + step, stop, step)
    ELSE <<>>

\* list(range(start, stop, step)); step is never 0 here
RECURSIVE PyRange(_, _, _)
PyRange(start, stop, step) ==
    IF (step > 0 /\ start < stop) \/ (step < 0 /\ start > stop)
    THEN <<start>> \o PyRange(start + step, stop, step)
    ELSE <<>>

\* a reverse that leaves the list as it was
ReverseForgotten(seq) == seq

\* list.reverse()
Reverse(seq) == [k \in 1..Len(seq) |-> seq[Len(seq) + 1 - k]]

\* shapely's Polygon(shell): the ring in the order given, closed by its first point
Polygon(shell) == shell \o <<shell[1]>>

\* a cell that extends upward from its origin
CellUpward(x, y) ==
    Polygon(<<
        <<x, y>>,
        <<x + meters_on_side_of_acre, y>>,
        <<x + meters_on_side_of_acre, y + meters_on_side_of_acre>>,
        <<x, y + meters_on_side_of_acre>>
    >>)

\* a cell whose ring runs the other way round
CellRewound(x, y) ==
    Polygon(<<
        <<x, y>>,
        <<x, y - meters_on_side_of_acre>>,
        <<x + meters_on_side_of_acre, y - meters_on_side_of_acre>>,
        <<x + meters_on_side_of_acre, y>>
    >>)

\* the polygon appended for origin (x, y)
Cell(x, y) ==
    Polygon(<<
        <<x, y>>,
        <<x + meters_on_side_of_acre, y>>,
        <<x + meters_on_side_of_acre, y - meters_on_side_of_acre>>,
        <<x, y - meters_on_side_of_acre>>
    >>)

\* GeoDataFrame.to_crs: same geometries, same order, same vertices in the same
\* order; the coordinates are the transform's, kept symbolic
ToCrs(frame, crs) ==
    [crs |-> crs,
     geometry |-> [k \in 1..Len(frame.geometry) |->
                      [from |-> frame.crs, coords |-> frame.geometry[k]]]]

NoFrame == [crs |-> "none", geometry |-> <<>>]

\* what geopandas / numpy raise on a frame with no geometries: to_crs on a frame
\* without a geometry column or without a crs, or int() of a NaN bound
EmptyFrameErrors == {"AttributeError", "ValueError"}

Mins == {-(Scale + 1), 1}
Extents == {meters_on_side_of_acre * Scale * k + d : k \in 0..MaxSpan, d \in {0, 1}}
Ranges == {<<lo, lo + e>> : lo \in Mins, e \in Extents}
Boxes == {<<xr[1], yr[1], xr[2], yr[2]>> : xr \in Ranges, yr \in Ranges}

References ==
    {[size |-> 0, box |-> <<0, 0, 0, 0>>]} \cup {[size |-> 1, box |-> b] : b \in Boxes}

LoaderIdle ==
    /\ layers = <<>>
    /\ li = 1
    /\ gdf = <<>>
    /\ lpc = "idle"
    /\ lerror = "none"

Init ==
    /\ reference \in References
    /\ pc = "call"
    /\ total_bounds = <<0, 0, 0, 0>>
    /\ int_bounds = <<0, 0, 0, 0>>
    /\ cols = <<>>
    /\ rows = <<>>
    /\ ci = 1
    /\ ri = 1
    /\ polygons = <<>>
    /\ grid_gdf = NoFrame
    /\ error = "none"
    /\ calls = 1
    /\ first_grid = <<>>
    /\ LoaderIdle

\* lines 122-129 on a frame with no geometries: no bounding box, an exception
RaiseEmpty ==
    /\ pc = "call"
    /\ reference.size = 0
    /\ \E e \in EmptyFrameErrors : error' = e
    /\ pc' = "raised"
    /\ UNCHANGED <<reference, total_bounds, int_bounds, cols, rows, ci, ri,
                   polygons, grid_gdf, calls, first_grid>>
    /\ UNCHANGED loaderVars

\* lines 122-124: to_crs('epsg:2773') and total_bounds
MetricBounds ==
    /\ pc = "call"
    /\ reference.size > 0
    /\ total_bounds' = reference.box
    /\ pc' = "floor"
    /\ UNCHANGED <<reference, int_bounds, cols, rows, ci, ri, polygons,
                   grid_gdf, error, calls, first_grid>>
    /\ UNCHANGED loaderVars

\* lines 126-129
FloorBounds ==
    /\ pc = "floor"
    /\ int_bounds' = <<Floor(total_bounds[1]), Floor(total_bounds[2]),
                       Floor(total_bounds[3]), Floor(total_bounds[4])>>
    /\ pc' = "axes"
    /\ UNCHANGED <<reference, total_bounds, cols, rows, ci, ri, polygons,
                   grid_gdf, error, calls, first_grid>>
    /\ UNCHANGED loaderVars

\* lines 131-135
BuildAxes ==
    /\ pc = "axes"
    /\ cols' = PyRange(int_bounds[1], int_bounds[3], meters_on_side_of_acre)
    /\ rows' = Reverse(PyRange(int_bounds[2], int_bounds[4], meters_on_side_of_acre))
    /\ polygons' = <<>>
    /\ ci' = 1
    /\ ri' = 1
    /\ pc' = "loop"
    /\ UNCHANGED <<reference, total_bounds, int_bounds, grid_gdf, error, calls,
                   first_grid>>
    /\ UNCHANGED loaderVars

\* lines 136-145: one pass of the inner loop body
AppendCell ==
    /\ pc = "loop"
    /\ ci <= Len(cols)
    /\ ri <= Len(rows)
    /\ polygons' = Append(polygons, Cell(cols[ci], rows[ri]))
    /\ IF ri < Len(rows)
       THEN ri' = ri + 1 /\ ci' = ci
       ELSE ri' = 1 /\ ci' = ci + 1
    /\ UNCHANGED <<reference, pc, total_bounds, int_bounds, cols, rows,
                   grid_gdf, error, calls, first_grid>>
    /\ UNCHANGED loaderVars

\* lines 149-153, once the loops have nothing left to visit
ReturnGrid ==
    /\ pc = "loop"
    /\ (ci > Len(cols) \/ Len(rows) = 0)
    /\ grid_gdf' = ToCrs([crs |-> "epsg:2773", geometry |-> polygons], "ref_crs")
    /\ first_grid' = IF calls = 1 THEN polygons ELSE first_grid
    /\ pc' = "done"
    /\ UNCHANGED <<reference, total_bounds, int_bounds, cols, rows, ci, ri,
                   polygons, error, calls>>
    /\ UNCHANGED loaderVars

\* the caller calls generate_grid(reference) once more: fresh locals
CallAgain ==
    /\ pc = "done"
    /\ calls < MaxCalls
    /\ calls' = calls + 1
    /\ pc' = "call"
    /\ total_bounds' = <<0, 0, 0, 0>>
    /\ int_bounds' = <<0, 0, 0, 0>>
    /\ cols' = <<>>
    /\ rows' = <<>>
    /\ ci' = 1
    /\ ri' = 1
    /\ polygons' = <<>>
    /\ grid_gdf' = NoFrame
    /\ UNCHANGED <<reference, error, first_grid>>
    /\ UNCHANGED loaderVars

Next ==
    \/ RaiseEmpty
    \/ MetricBounds
    \/ FloorBounds
    \/ BuildAxes
    \/ AppendCell
    \/ ReturnGrid
    \/ CallAgain

Spec == Init /\ [][Next]_vars

---------------------------------------------------------------------------
(* get_geo_dataframe *)

\* an append that puts the new rows first
FramePrepend(frame, s) == s \o frame

\* gdf.append(s, ignore_index=True): the rows of s after the rows of gdf
FrameAppend(frame, s) == frame \o s

\* sequences over S of length 0..n
RECURSIVE SeqsUpTo(_, _)
SeqsUpTo(S, n) ==
    IF n = 0 THEN {<<>>}
    ELSE LET shorter == SeqsUpTo(S, n - 1)
         IN  shorter \cup {Append(q, e) : q \in shorter, e \in S}

\* a layer either parses into its geometries or makes gpd.read_file raise
LayerValues ==
    {[ok |-> TRUE, geoms |-> g] : g \in SeqsUpTo(1..NumGeoms, MaxGeoms)}
        \cup {[ok |-> FALSE, geoms |-> <<>>]}

Sources == SeqsUpTo(LayerValues, MaxLayers)

GridIdle ==
    /\ reference = [size |-> 0, box |-> <<0, 0, 0, 0>>]
    /\ pc = "idle"
    /\ total_bounds = <<0, 0, 0, 0>>
    /\ int_bounds = <<0, 0, 0, 0>>
    /\ cols = <<>>
    /\ rows = <<>>
    /\ ci = 1
    /\ ri = 1
    /\ polygons = <<>>
    /\ grid_gdf = NoFrame
    /\ error = "none"
    /\ calls = 1
    /\ first_grid = <<>>

\* line 102: gdf = gpd.GeoDataFrame(), about to enumerate the layers
LoaderInit ==
    /\ layers \in Sources
    /\ li = 1
    /\ gdf = <<>>
    /\ lpc = "loop"
    /\ lerror = "none"
    /\ GridIdle

\* lines 104-105: one pass of the loop body
ReadLayer ==
    /\ lpc = "loop"
    /\ li <= Len(layers)
    /\ layers[li].ok
    /\ gdf' = FrameAppend(gdf, layers[li].geoms)
    /\ li' = li + 1
    /\ UNCHANGED <<layers, lpc, lerror>>
    /\ UNCHANGED gridVars

\* line 104: gpd.read_file raises on a layer it cannot parse
ReadFails ==
    /\ lpc = "loop"
    /\ li <= Len(layers)
    /\ ~layers[li].ok
    /\ lpc' = "raised"
    /\ lerror' = "DriverError"
    /\ UNCHANGED <<layers, li, gdf>>
    /\ UNCHANGED gridVars

\* line 106, once the loop has no layer left
ReturnFrame ==
    /\ lpc = "loop"
    /\ li > Len(layers)
    /\ lpc' = "done"
    /\ UNCHANGED <<layers, li, gdf, lerror>>
    /\ UNCHANGED gridVars

LoaderNext ==
    \/ ReadLayer
    \/ ReadFails
    \/ ReturnFrame

LoaderSpec == LoaderInit /\ [][LoaderNext]_vars

---------------------------------------------------------------------------
(* Properties of generate_grid, checked under Spec *)

Side == meters_on_side_of_acre

SetMin(S) == CHOOSE m \in S : \A e \in S : m <= e
SetMax(S) == CHOOSE m \in S : \A e \in S : m >= e
Abs(n) == IF n < 0 THEN -n ELSE n

\* the integer k with k <= n / Scale < k + 1, found by search
FloorOf(n) ==
    CHOOSE k \in -(Abs(n) + 1)..(Abs(n) + 1) : k * Scale <= n /\ n < (k + 1) * Scale

\* ceil(a / b) for a >= 0, b > 0
CeilDiv(a, b) == (a + b - 1) \div b

Emitting == pc \in {"loop", "done"}

Xs(p) == {p[v][1] : v \in 1..Len(p)}
Ys(p) == {p[v][2] : v \in 1..Len(p)}
XLo(p) == SetMin(Xs(p))
XHi(p) == SetMax(Xs(p))
YLo(p) == SetMin(Ys(p))
YHi(p) == SetMax(Ys(p))

Cells == 1..Len(polygons)

\* the floored bounding box of the reference, from its metric bounding box
FlooredBox == [c \in 1..4 |-> FloorOf(reference.box[c])]

ExpectedCount ==
    LET dx == FlooredBox[3] - FlooredBox[1]
        dy == FlooredBox[4] - FlooredBox[2]
    IN  IF dx > 0 /\ dy > 0 THEN CeilDiv(dx, Side) * CeilDiv(dy, Side) ELSE 0

\* C1: a returned grid holds ceil(dx / 64) * ceil(dy / 64) cells, dx and dy the
\* floored extents, and no cell when dx or dy is 0.
C1_CellCount ==
    pc = "done" =>
        /\ Len(polygons) = ExpectedCount
        /\ Len(grid_gdf.geometry) = ExpectedCount

\* C1 witness: a 3 x 2 grid over extents that are not multiples of the side.
C1_Witness ==
    /\ pc = "done"
    /\ int_bounds[3] - int_bounds[1] = 2 * Side + 1
    /\ int_bounds[4] - int_bounds[2] = Side + 1
    /\ Len(polygons) = 6

\* C2 as stated: every vertex of every cell has x in [floor(xmin), floor(xmax))
\* and y in (floor(ymin), floor(ymax)].
C2_Original ==
    Emitting =>
        \A k \in Cells : \A v \in 1..Len(polygons[k]) :
            /\ FloorOf(reference.box[1]) <= polygons[k][v][1]
            /\ polygons[k][v][1] < FloorOf(reference.box[3])
            /\ FloorOf(reference.box[2]) < polygons[k][v][2]
            /\ polygons[k][v][2] <= FloorOf(reference.box[4])

\* C2 amended: every vertex of every cell has x in [floor(xmin), floor(xmax) + 64)
\* and y in [floor(ymin) - 64, floor(ymax)): a cell may stick out of the floored
\* box by less than one side at high x and by up to one side at low y.
C2_CellsNearBox ==
    Emitting =>
        \A k \in Cells : \A v \in 1..Len(polygons[k]) :
            /\ FloorOf(reference.box[1]) <= polygons[k][v][1]
            /\ polygons[k][v][1] < FloorOf(reference.box[3]) + Side
            /\ FloorOf(reference.box[2]) - Side <= polygons[k][v][2]
            /\ polygons[k][v][2] < FloorOf(reference.box[4])

\* C2 witness: a finished grid whose last column passes floor(xmax) and whose
\* lowest row starts a full side under floor(ymin).
C2_Witness ==
    /\ pc = "done"
    /\ Len(polygons) >= 4
    /\ \E k \in Cells : XHi(polygons[k]) > FloorOf(reference.box[3])
    /\ \E k \in Cells : YLo(polygons[k]) = FloorOf(reference.box[2]) - Side

InteriorsMeet(p, q) ==
    /\ XLo(p) < XHi(q) /\ XLo(q) < XHi(p)
    /\ YLo(p) < YHi(q) /\ YLo(q) < YHi(p)

Area(p) == (XHi(p) - XLo(p)) * (YHi(p) - YLo(p))

RECURSIVE AreaSum(_)
AreaSum(n) == IF n = 0 THEN 0 ELSE Area(polygons[n]) + AreaSum(n - 1)

HullArea ==
    (SetMax({XHi(polygons[k]) : k \in Cells}) - SetMin({XLo(polygons[k]) : k \in Cells}))
        * (SetMax({YHi(polygons[k]) : k \in Cells}) - SetMin({YLo(polygons[k]) : k \in Cells}))

\* C3: the cells of a finished grid tile one rectangle: every cell is a 64 x 64
\* square, no two cells share interior area, the cells' areas add up to the area
\* of their bounding rectangle (so it has no gap), and neighbouring column and
\* row origins are exactly 64 apart.
C3_Tiling ==
    pc = "done" =>
        /\ \A k \in Cells :
              XHi(polygons[k]) - XLo(polygons[k]) = Side
                  /\ YHi(polygons[k]) - YLo(polygons[k]) = Side
        /\ \A k \in Cells : \A m \in Cells :
              k # m => ~InteriorsMeet(polygons[k], polygons[m])
        /\ Cells # {} => AreaSum(Len(polygons)) = HullArea
        /\ \A k \in 1..(Len(cols) - 1) : cols[k + 1] - cols[k] = Side
        /\ \A k \in 1..(Len(rows) - 1) : rows[k] - rows[k + 1] = Side

\* C3 witness: a finished 3 x 3 grid.
C3_Witness ==
    /\ pc = "done"
    /\ Len(cols) = 3
    /\ Len(rows) = 3
    /\ Len(polygons) = 9

\* Points of the floored box on the half-unit lattice <<px / 2, py / 2>>: every
\* cell and box edge is an integer, so the lattice meets every region they cut.
BoxLattice ==
    (2 * int_bounds[1] .. 2 * int_bounds[3]) \X (2 * int_bounds[2] .. 2 * int_bounds[4])

\* <<XLo, XHi, YLo, YHi>> of every cell, doubled onto the lattice
CellExtents ==
    [k \in Cells |-> <<2 * XLo(polygons[k]), 2 * XHi(polygons[k]),
                       2 * YLo(polygons[k]), 2 * YHi(polygons[k])>>]

CoveredBy(ext, pt) ==
    \E k \in DOMAIN ext :
        /\ ext[k][1] <= pt[1] /\ pt[1] <= ext[k][2]
        /\ ext[k][3] <= pt[2] /\ pt[2] <= ext[k][4]

Covered(pt) == CoveredBy(CellExtents, pt)

NearHighX(pt) == 2 * int_bounds[3] - pt[1] <= 2 * Side
NearLowY(pt) == pt[2] - 2 * int_bounds[2] <= 2 * Side
NearHighY(pt) == 2 * int_bounds[4] - pt[2] <= 2 * Side

\* C4 as stated: every point of the floored box that no cell covers is within one
\* side of the x = ix_max edge or of the y = iy_min edge.
C4_Original ==
    pc = "done" =>
        LET ext == CellExtents
        IN  \A pt \in BoxLattice : NearHighX(pt) \/ NearLowY(pt) \/ CoveredBy(ext, pt)

\* C4 amended: every point of the floored box that no cell covers is within one
\* side of the x = ix_max edge or of the y = iy_max edge (the high-y edge, not
\* the low-y one); the rest of the box is covered.
C4_GapAtHighEdges ==
    pc = "done" =>
        LET ext == CellExtents
        IN  \A pt \in BoxLattice : NearHighX(pt) \/ NearHighY(pt) \/ CoveredBy(ext, pt)

\* C4 witness: a finished grid over a box wider and taller than two sides that
\* leaves a point of the box uncovered.
C4_Witness ==
    /\ pc = "done"
    /\ int_bounds[3] - int_bounds[1] > 2 * Side
    /\ int_bounds[4] - int_bounds[2] > 2 * Side
    /\ ~Covered(<<2 * int_bounds[1], 2 * int_bounds[4]>>)

\* C5: every cell is the ring (x,y), (x+64,y), (x+64,y-64), (x,y-64), closed by
\* (x,y), for a column origin x and a row origin y; a finished grid has one cell
\* per pair of origins, and the returned frame keeps each ring as built.
C5_VertexOrder ==
    /\ Emitting =>
          \A k \in Cells :
              LET x == polygons[k][1][1]
                  y == polygons[k][1][2]
              IN  /\ polygons[k] = <<<<x, y>>, <<x + Side, y>>, <<x + Side, y - Side>>,
                                     <<x, y - Side>>, <<x, y>>>>
                  /\ \E c \in 1..Len(cols) : cols[c] = x
                  /\ \E r \in 1..Len(rows) : rows[r] = y
    /\ pc = "done" =>
          /\ {polygons[k][1] : k \in Cells}
                = {<<cols[c], rows[r]>> : c \in 1..Len(cols), r \in 1..Len(rows)}
          /\ \A k \in Cells : grid_gdf.geometry[k].coords = polygons[k]

\* C5 witness: a finished grid of several cells.
C5_Witness ==
    /\ pc = "done"
    /\ Len(polygons) = 4
    /\ Len(grid_gdf.geometry) = 4

\* the largest row origin below iy_max, in closed form
TopRow == FlooredBox[2] + Side * ((FlooredBox[4] - FlooredBox[2] - 1) \div Side)

\* C6: cells are emitted by ascending origin x and, within one x, by descending
\* origin y; the first cell's origin is (ix_min, largest row origin below iy_max);
\* a second call on the same reference emits the same sequence.
C6_EmissionOrder ==
    /\ Emitting =>
          /\ \A a \in Cells : \A b \in Cells :
                a < b =>
                    \/ polygons[a][1][1] < polygons[b][1][1]
                    \/ /\ polygons[a][1][1] = polygons[b][1][1]
                       /\ polygons[a][1][2] > polygons[b][1][2]
          /\ Cells # {} => polygons[1][1] = <<FlooredBox[1], TopRow>>
    /\ (pc = "done" /\ calls > 1) => polygons = first_grid

\* C6 witness: the second call on a reference has returned a grid of several
\* columns and rows.
C6_Witness ==
    /\ pc = "done"
    /\ calls = 2
    /\ Len(cols) >= 2
    /\ Len(rows) >= 2
    /\ Len(polygons) = Len(cols) * Len(rows)

\* C8 as stated: generate_grid on an empty reference ends by raising
\* GeometryError and returns no grid.
C8_EmptyReferenceRaisesGeometryError ==
    (reference.size = 0 /\ pc \notin {"call", "idle"}) =>
        /\ pc = "raised"
        /\ error = "GeometryError"
        /\ grid_gdf = NoFrame

---------------------------------------------------------------------------
(* Properties of get_geo_dataframe, checked under LoaderSpec *)

\* C9 as stated: on a source with no layer the loader ends by raising LoadError
\* and returns no collection.
C9_NoLayersRaisesLoadError ==
    (Len(layers) = 0 /\ lpc \notin {"loop", "idle"}) =>
        /\ lpc = "raised"
        /\ lerror = "LoadError"

RECURSIVE GeomsBefore(_)
GeomsBefore(n) == IF n <= 1 THEN 0 ELSE Len(layers[n - 1].geoms) + GeomsBefore(n - 1)

\* C10: when every layer parses, the returned collection is the layers'
\* geometries in layer order and, within a layer, in parse order: its size is
\* the sum of the layers' sizes and the j-th geometry of layer n sits at
\* position (size of the layers before n) + j.
C10_Concatenation ==
    (lpc = "done" /\ \A n \in 1..Len(layers) : layers[n].ok) =>
        /\ Len(gdf) = GeomsBefore(Len(layers) + 1)
        /\ \A n \in 1..Len(layers) : \A j \in 1..Len(layers[n].geoms) :
              gdf[GeomsBefore(n) + j] = layers[n].geoms[j]

\* C10 witness: two layers of two geometries each, one geometry held by both
\* layers, all returned.
C10_Witness ==
    /\ lpc = "done"
    /\ Len(layers) = 2
    /\ layers[1].ok /\ layers[2].ok
    /\ layers[1].geoms = <<1, 2>>
    /\ layers[2].geoms = <<2, 1>>
    /\ Len(gdf) = 4

====
